---------------------------- MODULE Spec2Model ----------------------------
(* agiview2bmp (src/main.c): main() calls ViewToBMP() on each path of argv. *)
(* ViewToBMP reads an AGI VIEW resource (loops of cels, run-length encoded *)
(* rows), lays the cels out on an SDL surface and saves it as a BMP.       *)
(* The program is sequential: pc is the statement about to run.            *)
EXTENDS Integers, Sequences, FiniteSets, TLC

(***************************************************************************)
(* Bounds of the model.                                                    *)
(***************************************************************************)
\* Largest number of paths on the command line (argc - 1).
MaxArgs == 2
\* The most SDL_WriteSurfacePixel calls a row is followed for once its
\* bytes come from reads that hit the end of the file.
MaxRowWrites == 12

(***************************************************************************)
(* Integer widths.                                                         *)
(***************************************************************************)
Uint8(n) == n % 256
Uint16(n) == n % 65536

\* The values an object of indeterminate value is explored with (an
\* uninitialised local that a failed fread left untouched: byte, info):
\* 0x00 and 0x31 (colour 3, count 1).
IndetBytes == {0, 49}
\* The same for the 16-bit local rel_offset.
IndetWords == {0, 3}

pal == << <<0, 0, 0>>,     <<0, 0, 170>>,    <<0, 170, 0>>,    <<0, 170, 170>>,
          <<170, 0, 0>>,   <<170, 0, 170>>,  <<170, 85, 0>>,   <<170, 170, 170>>,
          <<85, 85, 85>>,  <<85, 85, 255>>,  <<85, 255, 85>>,  <<85, 255, 255>>,
          <<255, 85, 85>>, <<255, 85, 255>>, <<255, 255, 85>>, <<255, 255, 255>> >>

(***************************************************************************)
(* Input files.  A file is its sequence of bytes.  The files are built in  *)
(* the layout ViewToBMP reads: num_loops at offset 2, the loop offsets at  *)
(* 5, per loop num_cels and the relative cel offsets, per cel width,       *)
(* height, info and the row data.                                          *)
(***************************************************************************)
Word(n) == <<n % 256, n \div 256>>

\* A cel: [w, h, info, data], data the raw row bytes.
EncodeCel(c) == <<c.w, c.h, c.info>> \o c.data

RECURSIVE CelOffsets(_, _)
CelOffsets(cels, at) ==
    IF cels = <<>> THEN <<>>
    ELSE Word(at) \o CelOffsets(Tail(cels), at + Len(EncodeCel(Head(cels))))

RECURSIVE CelBodies(_)
CelBodies(cels) ==
    IF cels = <<>> THEN <<>> ELSE EncodeCel(Head(cels)) \o CelBodies(Tail(cels))

\* A loop: num_cels, the cel offsets relative to the loop, the cels.
EncodeLoop(cels) ==
    <<Len(cels)>> \o CelOffsets(cels, 1 + 2 * Len(cels)) \o CelBodies(cels)

RECURSIVE BodyOffset(_, _, _)
BodyOffset(bodies, k, at) ==
    IF k = 1 THEN at
    ELSE BodyOffset(Tail(bodies), k - 1, at + Len(EncodeLoop(Head(bodies))))

RECURSIVE LoopBodies(_)
LoopBodies(bodies) ==
    IF bodies = <<>> THEN <<>>
    ELSE EncodeLoop(Head(bodies)) \o LoopBodies(Tail(bodies))

RECURSIVE LoopOffsets(_, _, _)
LoopOffsets(refs, bodies, at) ==
    IF refs = <<>> THEN <<>>
    ELSE Word(BodyOffset(bodies, Head(refs), at)) \o LoopOffsets(Tail(refs), bodies, at)

\* A view: refs[i] is the loop body that loop i's offset names (a mirrored
\* loop names the body of the loop it mirrors), bodies the loop bodies.
EncodeView(refs, bodies) ==
    <<0, 0, Len(refs), 0, 0>>
        \o LoopOffsets(refs, bodies, 5 + 2 * Len(refs))
        \o LoopBodies(bodies)

Cel(w, h, info, data) == [w |-> w, h |-> h, info |-> info, data |-> data]

\* One loop, one cel 2x1, row 31 00: one pixel, the rest of the row is
\* left as it is (transparent).
ViewOne == EncodeView(<<1>>, << <<Cel(2, 1, 0, <<49, 0>>)>> >>)
\* Loop 0 and its mirror loop 1 share one body: a cel 5x1, row A5 00, info
\* 0x80 (mirrored, unmirrored loop 0, transparent colour 0).
ViewMirror == EncodeView(<<1, 1>>, << <<Cel(5, 1, 128, <<165, 0>>)>> >>)
\* Two loops; loop 0 has two cels of heights 2 and 1 with a short row, an
\* empty row and a count-0 run; loop 1 has a cel whose colour is transparent.
ViewTwo == EncodeView(<<1, 2>>,
              << <<Cel(2, 2, 0, <<49, 0, 0>>), Cel(1, 1, 1, <<16, 49, 0>>)>>,
                 <<Cel(1, 1, 3, <<49, 0>>)>> >>)
\* One loop whose cel widths add up to 256.
ViewWide == EncodeView(<<1>>,
              << <<Cel(255, 1, 0, <<49, 0>>), Cel(1, 1, 0, <<49, 0>>)>> >>)
\* One loop of two cels 1x1; the row of the second holds two pixels.
ViewLong == EncodeView(<<1>>,
              << <<Cel(1, 1, 0, <<49, 0>>), Cel(1, 1, 0, <<50, 0>>)>> >>)
\* A loop without cels, and a view without loops.
ViewEmptyLoop == EncodeView(<<1>>, << <<>> >>)
ViewNoLoops == EncodeView(<<>>, <<>>)

SampleViews ==
    {ViewOne, ViewMirror, ViewTwo, ViewWide, ViewLong, ViewEmptyLoop, ViewNoLoops}

\* The files a path may name: every sample view and every prefix of one (a
\* file cut short at any byte).
Files == UNION {{SubSeq(f, 1, n) : n \in 0..Len(f)} : f \in SampleViews}

(***************************************************************************)
(* State.                                                                  *)
(***************************************************************************)
VARIABLES
    argc,       \* main: argc (the paths are argv[1..argc-1])
    argi,       \* main: i
    pc,         \* the statement about to run
    file,       \* the bytes of the file argv[argi] names
    fp,         \* ViewToBMP: file is open (FILE * file)
    pos,        \* the position of the open file
    num_loops,  \* view.num_loops
    loops,      \* view.loops[0..num_loops-1]
    i, j, y,    \* ViewToBMP: the loop, cel and row counters
    x, step,    \* ViewToBMP: the raster column and the draw direction
    cel_x, cel_y,
    byte,       \* ViewToBMP: the RLE byte
    s,          \* ViewToBMP: the surface
    short,      \* history: a read of this file got fewer bytes than it asked
    got,        \* history: the last fread of the RLE byte returned 1
    rowStart,   \* history: the file position at which the current row began
    rowWrites,  \* history: SDL_WriteSurfacePixel calls made for the current row
    run,        \* history: the colour and count of the last run decoded
    writes,     \* history: the SDL_WriteSurfacePixel calls of the last run
    results     \* history: per path processed, what ViewToBMP did and printed

vars == <<argc, argi, pc, file, fp, pos, num_loops, loops, i, j, y, x, step,
          cel_x, cel_y, byte, s, short, got, rowStart, rowWrites, run,
          writes, results>>

ZeroCel == [header_offset |-> 0, data_offset |-> 0, width |-> 0, height |-> 0,
            transparency_color |-> 0, is_mirrored |-> 0,
            unmirrored_loop_num |-> 0]

ZeroLoop == [offset |-> 0, num_cels |-> 0, total_width |-> 0,
             total_height |-> 0, cels |-> <<>>]

\* SDL_Surface * s before CreateSurface and after SDL_DestroySurface.
NoSurface == [live |-> FALSE, w |-> 0, h |-> 0]

\* view.loops[i] and its cels[j] (C indices, from 0).
NoRun == [color |-> 0, count |-> 0]

LoopAt(n) == loops[n + 1]
CelAt(n, m) == loops[n + 1].cels[m + 1]

Init ==
    /\ argc \in 1..(MaxArgs + 1)
    /\ argi = 1
    /\ pc = "main"
    /\ file = <<>>
    /\ fp = FALSE
    /\ pos = 0
    /\ num_loops = 0
    /\ loops = <<>>
    /\ i = 0 /\ j = 0 /\ y = 0 /\ x = 0 /\ step = 1
    /\ cel_x = 0 /\ cel_y = 0
    /\ byte = 0
    /\ s = NoSurface
    /\ short = FALSE
    /\ got = FALSE
    /\ rowStart = 0
    /\ rowWrites = 0
    /\ run = NoRun
    /\ writes = <<>>
    /\ results = <<>>

(***************************************************************************)
(* stdio: fread of one element at the file position.                       *)
(***************************************************************************)
\* Bytes left from position p.
Left(p) == IF p >= Len(file) THEN 0 ELSE Len(file) - p

\* fread(&v, 1, 1, file) at p: the byte, or v untouched at the end of file.
Read8(p, old) == IF Left(p) >= 1 THEN file[p + 1] ELSE old

\* fread(&v, 2, 1, file) at p (little-endian): the values v may hold after.
\* With one byte left the element is read in part and its value is
\* indeterminate: the byte stored over the low byte, or v untouched.
Read16(p, old) ==
    IF Left(p) >= 2 THEN {file[p + 1] + 256 * file[p + 2]}
    ELSE IF Left(p) = 1 THEN {old, file[p + 1] + 256 * (old \div 256)}
    ELSE {old}

\* The position after fread of n bytes at p.
After(p, n) == IF Left(p) >= n THEN p + n ELSE p + Left(p)

\* ViewToBMP returns to main's loop, having printed `report`; main's i++.
\* The lifetime of ViewToBMP's automatic objects ends.
Return(opened, written, report) ==
    /\ results' = Append(results, [opened |-> opened, short |-> short,
                                   written |-> written, report |-> report])
    /\ argi' = argi + 1
    /\ pc' = "main"
    /\ pos' = 0
    /\ num_loops' = 0
    /\ loops' = <<>>
    /\ i' = 0 /\ j' = 0 /\ y' = 0 /\ x' = 0 /\ step' = 1
    /\ cel_x' = 0 /\ cel_y' = 0
    /\ byte' = 0
    /\ got' = FALSE
    /\ rowStart' = 0
    /\ rowWrites' = 0
    /\ run' = NoRun
    /\ writes' = <<>>

(***************************************************************************)
(* main                                                                    *)
(***************************************************************************)
\* for ( int i = 1; i < argc; i++ ) ViewToBMP(argv[i]);
CallViewToBMP ==
    /\ pc = "main"
    /\ argi < argc
    /\ \E f \in Files : file' = f
    /\ pc' = "open"
    /\ short' = FALSE
    /\ UNCHANGED <<argc, argi, fp, pos, num_loops, loops, i, j, y, x, step,
                   cel_x, cel_y, byte, s, got, rowStart, rowWrites, run, writes,
                   results>>

\* return 0;
MainReturn ==
    /\ pc = "main"
    /\ argi >= argc
    /\ pc' = "done"
    /\ UNCHANGED <<argc, argi, file, fp, pos, num_loops, loops, i, j, y, x,
                   step, cel_x, cel_y, byte, s, short, got, rowStart,
                   rowWrites, run, writes, results>>

(***************************************************************************)
(* ViewToBMP: reading the view                                             *)
(***************************************************************************)
\* fopen(path, "rb"); on NULL print the error and return.  View view = {0}.
Open ==
    /\ pc = "open"
    /\ \E ok \in BOOLEAN :
        IF ok
        THEN /\ fp' = TRUE
             /\ pos' = 0
             /\ num_loops' = 0
             /\ loops' = <<>>
             /\ pc' = "read_num_loops"
             /\ UNCHANGED <<argi, results, i, j, y, x, step, cel_x, cel_y,
                            byte, got, rowStart, rowWrites, run, writes>>
        ELSE /\ Return(FALSE, FALSE, "open_error")
             /\ UNCHANGED fp
    /\ UNCHANGED <<argc, file, s, short>>

\* fseek(file, 2); fread(&view.num_loops); fseek(file, 5); i = 0.
ReadNumLoops ==
    /\ pc = "read_num_loops"
    /\ num_loops' = Read8(2, num_loops)
    /\ loops' = [n \in 1..num_loops' |-> ZeroLoop]
    /\ short' = (short \/ Left(2) < 1)
    /\ pos' = 5
    /\ i' = 0
    /\ pc' = "read_loop_offset"
    /\ UNCHANGED <<argc, argi, file, fp, j, y, x, step, cel_x, cel_y, byte, s,
                   got, rowStart, rowWrites, run, writes, results>>

\* for ( i < view.num_loops ) fread(&view.loops[i].offset, sizeof(Uint16)).
ReadLoopOffset ==
    /\ pc = "read_loop_offset"
    /\ IF i < num_loops
       THEN /\ \E v \in Read16(pos, LoopAt(i).offset) :
                  loops' = [loops EXCEPT ![i + 1].offset = v]
            /\ pos' = After(pos, 2)
            /\ short' = (short \/ Left(pos) < 2)
            /\ i' = i + 1
            /\ pc' = pc
       ELSE /\ i' = 0
            /\ pc' = "read_loop"
            /\ UNCHANGED <<loops, pos, short>>
    /\ UNCHANGED <<argc, argi, file, fp, num_loops, j, y, x, step, cel_x,
                   cel_y, byte, s, got, rowStart, rowWrites, run, writes, results>>

\* for ( i < view.num_loops ): fseek(file, loop->offset); fread(&loop->num_cels).
ReadLoop ==
    /\ pc = "read_loop"
    /\ IF i < num_loops
       THEN /\ LET n == Read8(LoopAt(i).offset, LoopAt(i).num_cels) IN
                  loops' = [loops EXCEPT ![i + 1].num_cels = n,
                                         ![i + 1].cels = [m \in 1..n |-> ZeroCel]]
            /\ pos' = After(LoopAt(i).offset, 1)
            /\ short' = (short \/ Left(LoopAt(i).offset) < 1)
            /\ j' = 0
            /\ pc' = "read_cel_offset"
       ELSE /\ pc' = "create_surface"
            /\ UNCHANGED <<loops, pos, short, j>>
    /\ UNCHANGED <<argc, argi, file, fp, num_loops, i, y, x, step, cel_x,
                   cel_y, byte, s, got, rowStart, rowWrites, run, writes, results>>

\* for ( j < loop->num_cels ): fread(&rel_offset, sizeof(Uint16));
\* cels[j].header_offset = loop->offset + rel_offset.  rel_offset is an
\* uninitialised local: what it holds when fread stores nothing is
\* indeterminate.
ReadCelOffset ==
    /\ pc = "read_cel_offset"
    /\ IF j < LoopAt(i).num_cels
       THEN /\ \E old \in (IF Left(pos) >= 2 THEN {0} ELSE IndetWords) :
               \E rel_offset \in Read16(pos, old) :
                  loops' = [loops EXCEPT ![i + 1].cels[j + 1].header_offset =
                                Uint16(LoopAt(i).offset + rel_offset)]
            /\ pos' = After(pos, 2)
            /\ short' = (short \/ Left(pos) < 2)
            /\ j' = j + 1
            /\ pc' = pc
       ELSE /\ j' = 0
            /\ pc' = "read_cel_header"
            /\ UNCHANGED <<loops, pos, short>>
    /\ UNCHANGED <<argc, argi, file, fp, num_loops, i, y, x, step, cel_x,
                   cel_y, byte, s, got, rowStart, rowWrites, run, writes, results>>

\* The cel fields of the info byte.
IsMirrored(info) == (info \div 128) % 2
UnmirroredLoopNum(info) == (info \div 16) % 8
TransparencyColor(info) == info % 16

\* for ( j < loop->num_cels ): fseek(file, header_offset); fread width,
\* height, info; split info; data_offset = ftell(file).  info is an
\* uninitialised local.
ReadCelHeader ==
    /\ pc = "read_cel_header"
    /\ IF j < LoopAt(i).num_cels
       THEN LET at == CelAt(i, j).header_offset IN
            /\ \E junk \in (IF Left(at) >= 3 THEN {0} ELSE IndetBytes) :
                LET info == Read8(at + 2, junk) IN
                  loops' = [loops EXCEPT ![i + 1].cels[j + 1] =
                      [@ EXCEPT !.width = Read8(at, @),
                                !.height = Read8(at + 1, @),
                                !.is_mirrored = IsMirrored(info),
                                !.unmirrored_loop_num = UnmirroredLoopNum(info),
                                !.transparency_color = TransparencyColor(info),
                                !.data_offset = Uint16(After(at, 3))]]
            /\ pos' = After(at, 3)
            /\ short' = (short \/ Left(at) < 3)
            /\ j' = j + 1
            /\ UNCHANGED <<i, pc>>
       ELSE /\ i' = i + 1
            /\ pc' = "read_loop"
            /\ UNCHANGED <<loops, pos, short, j>>
    /\ UNCHANGED <<argc, argi, file, fp, num_loops, y, x, step, cel_x, cel_y,
                   byte, s, got, rowStart, rowWrites, run, writes, results>>

(***************************************************************************)
(* GetSurfaceSize and CreateSurface                                        *)
(***************************************************************************)
\* The inner loop of GetSurfaceSize over cels[k..]: loop->total_width (a
\* Uint8) += width, loop->total_height = the largest height so far.
RECURSIVE LoopSize(_, _, _)
LoopSize(cels, tw, th) ==
    IF cels = <<>> THEN <<tw, th>>
    ELSE LoopSize(Tail(cels),
                  Uint8(tw + Head(cels).width),
                  IF Head(cels).height > th THEN Head(cels).height ELSE th)

\* view->loops after GetSurfaceSize: every loop's totals updated.
SizedLoops(ls) ==
    [n \in 1..Len(ls) |->
        LET sz == LoopSize(ls[n].cels, ls[n].total_width, ls[n].total_height)
        IN  [ls[n] EXCEPT !.total_width = sz[1], !.total_height = sz[2]]]

\* The outer loop of GetSurfaceSize over sized loops[k..]: result.w the
\* largest total_width, result.h the sum of the total_heights.
RECURSIVE SurfaceRect(_, _, _)
SurfaceRect(ls, w, h) ==
    IF ls = <<>> THEN <<w, h>>
    ELSE SurfaceRect(Tail(ls),
                     IF Head(ls).total_width > w THEN Head(ls).total_width ELSE w,
                     h + Head(ls).total_height)

\* SDL_Rect GetSurfaceSize(View * view): <<w, h>>, w doubled.
GetSurfaceSize(ls) ==
    LET r == SurfaceRect(SizedLoops(ls), 0, 0) IN <<r[1] * 2, r[2]>>

\* SDL_Surface * s = CreateSurface(&view): the surface cleared to
\* transparent, or exit(EXIT_FAILURE) when SDL_CreateSurface returns NULL.
\* exit closes every open stream (C11 7.22.4.4).
CreateSurface ==
    /\ pc = "create_surface"
    /\ loops' = SizedLoops(loops)
    /\ \E ok \in BOOLEAN :
        IF ok
        THEN /\ s' = [live |-> TRUE, w |-> GetSurfaceSize(loops)[1],
                      h |-> GetSurfaceSize(loops)[2]]
             /\ cel_y' = 0
             /\ i' = 0
             /\ pc' = "draw_loop"
             /\ UNCHANGED fp
        ELSE /\ pc' = "exited"
             /\ fp' = FALSE
             /\ UNCHANGED <<s, cel_y, i>>
    /\ UNCHANGED <<argc, argi, file, pos, num_loops, j, y, x, step, cel_x,
                   byte, short, got, rowStart, rowWrites, run, writes, results>>

(***************************************************************************)
(* ViewToBMP: drawing                                                      *)
(***************************************************************************)
\* for ( i < view.num_loops ): cel_x = 0; j = 0.
DrawLoop ==
    /\ pc = "draw_loop"
    /\ IF i < num_loops
       THEN /\ cel_x' = 0
            /\ j' = 0
            /\ pc' = "draw_cel"
       ELSE /\ pc' = "save"
            /\ UNCHANGED <<cel_x, j>>
    /\ UNCHANGED <<argc, argi, file, fp, pos, num_loops, loops, i, y, x, step,
                   cel_y, byte, s, short, got, rowStart, rowWrites, run, writes,
                   results>>

\* for ( j < loop->num_cels ): fseek(file, cel->data_offset); y = cel_y.
\* After the last cel: cel_y += loop->total_height; i++.
DrawCel ==
    /\ pc = "draw_cel"
    /\ IF j < LoopAt(i).num_cels
       THEN /\ pos' = CelAt(i, j).data_offset
            /\ y' = cel_y
            /\ pc' = "draw_row"
            /\ UNCHANGED <<cel_y, i>>
       ELSE /\ cel_y' = cel_y + LoopAt(i).total_height
            /\ i' = i + 1
            /\ pc' = "draw_loop"
            /\ UNCHANGED <<pos, y>>
    /\ UNCHANGED <<argc, argi, file, fp, num_loops, loops, j, x, step, cel_x,
                   byte, s, short, got, rowStart, rowWrites, run, writes, results>>

\* Flipped without the test of the unmirrored loop.
FlippedAnyLoop(cel, loopIndex) == cel.is_mirrored # 0

\* The row is drawn right to left.
Flipped(cel, loopIndex) ==
    cel.is_mirrored # 0 /\ cel.unmirrored_loop_num # loopIndex

\* The first raster column of a row and the step.
RowX(cel, loopIndex, celX) ==
    IF Flipped(cel, loopIndex) THEN celX + (cel.width * 2) - 1 ELSE celX

RowStep(cel, loopIndex) == IF Flipped(cel, loopIndex) THEN -1 ELSE 1

\* for ( y < cel_y + cel->height ): set x and step.  After the last row:
\* cel_x += cel->width * 2; j++.
DrawRow ==
    /\ pc = "draw_row"
    /\ IF y < cel_y + CelAt(i, j).height
       THEN /\ x' = RowX(CelAt(i, j), i, cel_x)
            /\ step' = RowStep(CelAt(i, j), i)
            /\ rowStart' = pos
            /\ rowWrites' = 0
            /\ pc' = "rle_read"
            /\ UNCHANGED <<cel_x, j>>
       ELSE /\ cel_x' = cel_x + CelAt(i, j).width * 2
            /\ j' = j + 1
            /\ pc' = "draw_cel"
            /\ UNCHANGED <<x, step, rowStart, rowWrites>>
    /\ UNCHANGED <<argc, argi, file, fp, pos, num_loops, loops, i, y, cel_y,
                   byte, s, short, got, run, writes, results>>

\* The run of an RLE byte.
RunColor(b) == (b \div 16) % 16
\* RunCount taking the high nibble.
RunCountHigh(b) == (b \div 16) % 16

RunCount(b) == b % 16

\* The row stays within MaxRowWrites when the run of b is drawn.
Fits(b) == RunCount(b) = 0 \/ rowWrites + 2 * RunCount(b) <= MaxRowWrites

\* Uint8 byte; fread(&byte, sizeof(byte), 1, file).  byte has no
\* initialiser: when fread stores nothing its value is indeterminate (what
\* the object held before, or anything else).
RleRead ==
    /\ pc = "rle_read"
    /\ IF Left(pos) >= 1
       THEN byte' = file[pos + 1]
       ELSE byte' \in {b \in IndetBytes \cup {byte} : Fits(b)}
    /\ got' = (Left(pos) >= 1)
    /\ short' = (short \/ Left(pos) < 1)
    /\ pos' = After(pos, 1)
    /\ pc' = "rle_draw"
    /\ UNCHANGED <<argc, argi, file, fp, num_loops, loops, i, j, y, x, step,
                   cel_x, cel_y, s, rowStart, rowWrites, run, writes, results>>

\* The r, g, b, a of a run: transparent black, or the palette colour.
Pixel(color, transparency_color) ==
    IF color # transparency_color THEN pal[color + 1] \o <<255>>
    ELSE <<0, 0, 0, 0>>

\* How many raster pixels one source pixel takes: for ( k < 2 ).
PixelWidth == 2

\* SDL_WriteSurfacePixel(s, x, y, ...) stores the pixel when (x, y) is
\* inside the surface and fails otherwise.
Stored(surface, px, py) ==
    /\ surface.live
    /\ px >= 0 /\ px < surface.w
    /\ py >= 0 /\ py < surface.h

\* RunWrites without the doubling.
RunWritesOnce(surface, x0, y0, st, color, count, transparency_color) ==
    [n \in 1..count |->
        [x |-> x0 + (n - 1) * st, y |-> y0,
         rgba |-> Pixel(color, transparency_color),
         stored |-> Stored(surface, x0 + (n - 1) * st, y0)]]

\* The SDL_WriteSurfacePixel calls of one run, in order: count source
\* pixels, each written PixelWidth times, x stepping after every call.  The
\* pixels of the surface are only ever written, so the model keeps the
\* calls and not the pixel store.
RunWrites(surface, x0, y0, st, color, count, transparency_color) ==
    [n \in 1..(PixelWidth * count) |->
        [x |-> x0 + (n - 1) * st, y |-> y0,
         rgba |-> Pixel(color, transparency_color),
         stored |-> Stored(surface, x0 + (n - 1) * st, y0)]]

\* if ( byte == 0 ) break (the row ends: y++); else the run is drawn.
RleDraw ==
    /\ pc = "rle_draw"
    /\ IF byte = 0
       THEN /\ y' = y + 1
            /\ run' = NoRun
            /\ writes' = <<>>
            /\ pc' = "draw_row"
            /\ UNCHANGED <<x, rowWrites>>
       ELSE LET ws == RunWrites(s, x, y, step, RunColor(byte), RunCount(byte),
                                CelAt(i, j).transparency_color)
            IN  /\ run' = [color |-> RunColor(byte), count |-> RunCount(byte)]
                /\ writes' = ws
                /\ x' = x + Len(ws) * step
                /\ rowWrites' = rowWrites + Len(ws)
                /\ pc' = "rle_read"
                /\ UNCHANGED y
    /\ UNCHANGED <<argc, argi, file, fp, pos, num_loops, loops, i, j, step,
                   cel_x, cel_y, byte, s, short, got, rowStart, results>>

(***************************************************************************)
(* ViewToBMP: saving                                                       *)
(***************************************************************************)
\* Save without fclose(file).
SaveNoClose ==
    /\ pc = "save"
    /\ \E ok \in BOOLEAN : Return(TRUE, ok, "saved")
    /\ s' = NoSurface
    /\ UNCHANGED <<argc, file, fp, short>>

\* SDL_SaveBMP(s, name), its result unused; printf("saved %s\n", name);
\* SDL_DestroySurface(s); fclose(file).
Save ==
    /\ pc = "save"
    /\ \E ok \in BOOLEAN : Return(TRUE, ok, "saved")
    /\ s' = NoSurface
    /\ fp' = FALSE
    /\ UNCHANGED <<argc, file, short>>

Next ==
    \/ CallViewToBMP
    \/ MainReturn
    \/ Open
    \/ ReadNumLoops
    \/ ReadLoopOffset
    \/ ReadLoop
    \/ ReadCelOffset
    \/ ReadCelHeader
    \/ CreateSurface
    \/ DrawLoop
    \/ DrawCel
    \/ DrawRow
    \/ RleRead
    \/ RleDraw
    \/ Save

Spec == Init /\ [][Next]_vars

\* The program always takes its next step.
FairSpec == Spec /\ WF_vars(Next)

(***************************************************************************)
(* Properties.                                                             *)
(***************************************************************************)
Ended == pc \in {"done", "exited"}

\* The paths ViewToBMP has been called on so far.
Started == IF pc \in {"main", "done"} THEN argi - 1 ELSE argi

\* The sum of the widths and the largest height of a sequence of cels, and
\* the largest and the sum of a sequence of numbers, as integers.
RECURSIVE SumWidths(_)
SumWidths(cels) ==
    IF cels = <<>> THEN 0 ELSE Head(cels).width + SumWidths(Tail(cels))

RECURSIVE MaxHeight(_)
MaxHeight(cels) ==
    IF cels = <<>> THEN 0
    ELSE LET m == MaxHeight(Tail(cels)) IN
         IF Head(cels).height > m THEN Head(cels).height ELSE m

RECURSIVE MaxLoopWidth(_)
MaxLoopWidth(ls) ==
    IF ls = <<>> THEN 0
    ELSE LET m == MaxLoopWidth(Tail(ls)) IN
         IF SumWidths(Head(ls).cels) > m THEN SumWidths(Head(ls).cels) ELSE m

RECURSIVE SumLoopHeights(_)
SumLoopHeights(ls) ==
    IF ls = <<>> THEN 0
    ELSE MaxHeight(Head(ls).cels) + SumLoopHeights(Tail(ls))

\* The cel being drawn.
Drawing == pc \in {"draw_row", "rle_read", "rle_draw"}
ThisCel == CelAt(i, j)

\* A run has just been drawn from a byte that fread stored.
RunDrawn == pc = "rle_read" /\ got /\ byte # 0

\* A row has just ended on a zero byte that fread stored.
RowEnded == pc = "draw_row" /\ y > cel_y /\ got

\* The counts of the bytes file[from..to] added up.
RECURSIVE SumCounts(_, _)
SumCounts(from, to) ==
    IF from > to THEN 0 ELSE (file[from] % 16) + SumCounts(from + 1, to)

\* C1: the surface is 2 * (the largest sum of a loop's cel widths) wide and
\* (the sum over the loops of the largest cel height) high.
C1_CanvasSize ==
    (s.live /\ ~short) => /\ s.w = 2 * MaxLoopWidth(loops)
                          /\ s.h = SumLoopHeights(loops)

\* C2: a file one of whose reads came up short is reported as truncated and
\* no image is written for it.
C2_TruncatedNoOutput ==
    \A k \in DOMAIN results :
        results[k].short =>
            results[k].report = "truncated" /\ ~results[k].written

\* C3: when the program has ended, ViewToBMP has been called on every path.
C3_EveryPathProcessed == Ended => Started = argc - 1

\* C4: a file whose image could not be written is not reported as saved.
C4_EncodeFailureReported ==
    \A k \in DOMAIN results :
        (results[k].opened /\ ~results[k].written) =>
            results[k].report # "saved"

\* C5: between two files, and when the program has ended, the file is closed
\* and there is no surface.
C5_Released ==
    pc \in {"main", "open", "done", "exited"} => ~fp /\ ~s.live

C5_Witness ==
    /\ pc = "open"
    /\ argi > 1
    /\ results[argi - 1].opened
    /\ results[argi - 1].short

\* C6: every non-zero byte b of a row yields the run of colour b >> 4 and
\* count b & 0x0F, drawn as count pixels (two calls each) that are
\* transparent black when the colour is the cel's transparency colour and
\* the palette colour with alpha 255 otherwise; the row ends at its first
\* zero byte, which is consumed and draws nothing.
C6_RowDecoding ==
    /\ RunDrawn =>
        /\ byte = file[pos]
        /\ run = [color |-> byte \div 16, count |-> byte % 16]
        /\ Len(writes) = 2 * run.count
        /\ \A n \in DOMAIN writes :
              writes[n].rgba =
                  IF run.color = ThisCel.transparency_color
                  THEN <<0, 0, 0, 0>>
                  ELSE pal[run.color + 1] \o <<255>>
        /\ byte = 49 => run = [color |-> 3, count |-> 1]
        /\ byte = 165 => run = [color |-> 10, count |-> 5]
    /\ RowEnded =>
        /\ file[pos] = 0
        /\ \A p \in (rowStart + 1)..(pos - 1) : file[p] # 0
        /\ writes = <<>>
        /\ (pos = rowStart + 1) => rowWrites = 0

C6_Witness ==
    /\ RunDrawn
    /\ byte = 165
    /\ run = [color |-> 10, count |-> 5]
    /\ Len(writes) = 10
    /\ writes[1].rgba = <<85, 255, 85, 255>>

\* The row being drawn is a mirrored cel's in a loop other than its own.
RowFlipped == ThisCel.is_mirrored = 1 /\ ThisCel.unmirrored_loop_num # i

RowStartX == IF RowFlipped THEN cel_x + ThisCel.width * 2 - 1 ELSE cel_x

\* C7: a row starts at cel_x + width * 2 - 1 with step -1 exactly when the
\* cel is mirrored and its unmirrored loop is not the loop being drawn, and
\* at cel_x with step +1 otherwise; the first pixel of the row lands there.
C7_DrawDirection ==
    /\ (Drawing /\ Left(ThisCel.header_offset) >= 3) =>
        LET info == file[ThisCel.header_offset + 3] IN
        /\ ThisCel.is_mirrored = (IF info >= 128 THEN 1 ELSE 0)
        /\ ThisCel.unmirrored_loop_num = (info % 128) \div 16
    /\ (pc = "rle_read" /\ rowWrites = 0) =>
        /\ x = RowStartX
        /\ step = IF RowFlipped THEN -1 ELSE 1
    /\ (pc = "rle_read" /\ rowWrites > 0 /\ rowWrites = Len(writes)) =>
        writes[1].x = RowStartX

C7_Witness ==
    /\ pc = "rle_read"
    /\ i = 1
    /\ ThisCel.is_mirrored = 1
    /\ ThisCel.unmirrored_loop_num = 0
    /\ rowWrites > 0
    /\ rowWrites = Len(writes)
    /\ step = -1
    /\ writes[1].x = cel_x + ThisCel.width * 2 - 1

\* C8 as stated: every row of a cel of width W results in 2 * W pixel writes.
C8_RowWritesTwiceWidth ==
    (RowEnded /\ ~short) => rowWrites = 2 * ThisCel.width

\* C8 amended: every source pixel is written as two consecutive raster
\* pixels in the draw direction, and a row results in twice as many pixel
\* writes as the counts of its bytes add up to.
C8_RowWritesTwiceCounts ==
    /\ RunDrawn =>
        /\ Len(writes) = 2 * (file[pos] % 16)
        /\ \A n \in DOMAIN writes :
              /\ writes[n].y = y
              /\ n < Len(writes) => writes[n + 1].x = writes[n].x + step
              /\ (n % 2 = 1) => writes[n + 1].rgba = writes[n].rgba
        /\ Len(writes) > 0 => x = writes[Len(writes)].x + step
    /\ RowEnded => rowWrites = 2 * SumCounts(rowStart + 1, pos - 1)

C8_Witness ==
    /\ RowEnded
    /\ ~short
    /\ rowWrites = 2
    /\ ThisCel.width = 2
    /\ pos = rowStart + 2

\* C9: every pixel write of a cel is inside the cel's rectangle and inside
\* the surface, the rectangle starting at cel_x = 2 * (the widths of the
\* cels before it in the loop) and cel_y = the heights of the loops before.
C9_WritesInsideCel ==
    (pc = "rle_read" /\ ~short) =>
        /\ cel_x = 2 * SumWidths(SubSeq(LoopAt(i).cels, 1, j))
        /\ cel_y = SumLoopHeights(SubSeq(loops, 1, i))
        /\ \A n \in DOMAIN writes :
              /\ cel_x <= writes[n].x
              /\ writes[n].x < cel_x + 2 * ThisCel.width
              /\ cel_y <= writes[n].y
              /\ writes[n].y < cel_y + ThisCel.height
              /\ writes[n].x < s.w
              /\ writes[n].y < s.h

\* C10: the processing of every file ends.
C10_Terminates == <>Ended

\* Every state that is not the end of the program has a next step.
NeverStuck == Ended \/ ENABLED Next

=============================================================================
